---- MODULE Spec2Model ----
(***************************************************************************)
(* Backup-Replication.py: one run of the daily backup rotation script.     *)
(* The script is module-level code; a run is: look up today's file, zip    *)
(* it, copy the zip to the file server, delete the source files of the     *)
(* next DAYS_TO_DELETE weekdays, remove the zip, send a status e-mail.     *)
(* exit is sys.exit: it raises SystemExit, which "except Exception" does   *)
(* not catch and which runs the enclosing "finally" before the process     *)
(* ends.                                                                   *)
(***************************************************************************)
EXTENDS Integers, Sequences, FiniteSets, TLC

\* ------------------------------------------------------------------ bounds
\* largest days_to_delete a configuration gives
MaxDays == 7
\* file stems that a configuration may give a weekday instead of its own
MaxStem == 1
\* consecutive weekdays whose files may be absent at the start
MaxMissing == 1

\* ------------------------------------------------------------ file names
\* line 70: the canonical order of get_next_days
days_of_week == <<"Sunday", "Monday", "Tuesday", "Wednesday", "Thursday", "Friday", "Saturday">>

DayNames == {days_of_week[i] : i \in 1..Len(days_of_week)}

\* days_of_week.index(day_name), 0-based as in Python
IndexOf(day_name) == (CHOOSE i \in 1..Len(days_of_week) : days_of_week[i] = day_name) - 1

\* A file name is <<stem, extension>>; os.path.splitext splits it so.
Exts == {"bak", "zip"}

Stems == 1..Len(days_of_week)

Names == Stems \X Exts

\* FILES_MAP.get(day) of a weekday the configuration does not map
NoFile == <<0, "">>

\* lines 111-112: zip_file_name = splitext(file_name)[0] + ".zip"
ZipNameOf(name) == <<name[1], "zip">>

\* -------------------------------------------------------- file contents
\* What a path of a directory holds. data names the bytes: the bytes file
\* n held when the run started are called n, NoFile is "no bytes".
Absent == [kind |-> "absent", member |-> NoFile, data |-> NoFile]

Orig(n) == [kind |-> "orig", member |-> NoFile, data |-> n]

\* a complete zip archive with one member
Zip(m, d) == [kind |-> "zip", member |-> m, data |-> d]

\* what an interrupted write leaves behind
Partial == [kind |-> "partial", member |-> NoFile, data |-> NoFile]

VARIABLES
    FILES_MAP,        \* config["files"]: weekday -> file name or NoFile
    DAYS_TO_DELETE,   \* config["days_to_delete"]
    day_of_week,      \* line 95
    src,              \* SOURCE_DIRECTORY: name -> contents
    server,           \* FILE_SERVER_DIRECTORY/zip_file_name
    process_success,  \* the module-level flag of line 16
    pc,               \* position of the script
    days_to_check,    \* line 75
    di,               \* how many entries of days_to_check the loop has taken
    emails,           \* the calls of send_email, in order
    exiting,          \* a SystemExit(1) is propagating
    exitCode,         \* the process's exit code, -1 while it runs
    src0,             \* history: src at the start
    server0,          \* history: server at the start
    failed,           \* history: the steps that failed
    delLog            \* history: the os.remove calls of delete_next_backups

vars == <<FILES_MAP, DAYS_TO_DELETE, day_of_week, src, server, process_success, pc,
          days_to_check, di, emails, exiting, exitCode, src0, server0, failed, delLog>>

config == <<FILES_MAP, DAYS_TO_DELETE, day_of_week, src0, server0>>

\* lines 99, 110-113
file_name == FILES_MAP[day_of_week]

zip_file_name == ZipNameOf(file_name)

\* os.path.exists
Exists(dir, name) == dir[name].kind # "absent"

\* ------------------------------------------------------------- functions
\* a wrong get_next_days: range(0, days_ahead), which starts at day_name
get_next_days_from_start(day_name, days_ahead) ==
    [i \in 1..days_ahead |-> days_of_week[((IndexOf(day_name) + (i - 1)) % 7) + 1]]

\* lines 69-72
get_next_days(day_name, days_ahead) ==
    [i \in 1..days_ahead |-> days_of_week[((IndexOf(day_name) + i) % 7) + 1]]

\* lines 47-63: one call of send_email. day is the weekday the subject
\* names, file the file the body names. sendmail may raise; the handler logs
\* it and assigns a LOCAL process_success, so nothing but the log changes.
Mail(subject, day, body, file, delivered) ==
    [subject |-> subject, day |-> day, body |-> body, file |-> file,
     delivered |-> delivered]

send_email(subject, day, body, file, delivered) ==
    emails' = Append(emails, Mail(subject, day, body, file, delivered))

\* ----------------------------------------------------------------- Init
\* The mapping every weekday has of its own: stem = position, ".bak".
BaseMap == [d \in DayNames |-> <<IndexOf(d) + 1, "bak">>]

OverrideValues == {NoFile} \cup ((1..MaxStem) \X Exts)

Mappings == {[BaseMap EXCEPT ![d] = v] : d \in DayNames, v \in OverrideValues}

Mapped(map) == {map[d] : d \in DayNames} \ {NoFile}

\* the k weekdays from day s on, in the canonical order
Block(s, k) == {days_of_week[((IndexOf(s) + j) % 7) + 1] : j \in 0..(k - 1)}

\* The source directory holds the mapped files but for those of at most
\* MaxMissing consecutive weekdays that start today (today's backup was not
\* produced) or tomorrow (an earlier run removed them), and possibly a
\* leftover at today's archive path (an earlier run's cleanup failed).
InitialDirs(map, today) ==
    LET leftovers == IF map[today] = NoFile THEN {{}} ELSE {{}, {ZipNameOf(map[today])}}
        starts == {today, days_of_week[((IndexOf(today) + 1) % 7) + 1]}
        missing == {{map[d] : d \in Block(s, k)} : s \in starts, k \in 0..MaxMissing}
    IN  {[n \in Names |-> IF n \in (Mapped(map) \ m) \cup l THEN Orig(n) ELSE Absent] :
            m \in missing, l \in leftovers}

Init ==
    /\ FILES_MAP \in Mappings
    /\ DAYS_TO_DELETE \in 1..MaxDays
    /\ day_of_week \in DayNames
    /\ src \in InitialDirs(FILES_MAP, day_of_week)
    /\ server = Absent
    /\ process_success = TRUE
    /\ pc = "start"
    /\ days_to_check = <<>>
    /\ di = 0
    /\ emails = <<>>
    /\ exiting = FALSE
    /\ exitCode = -1
    /\ src0 = src
    /\ server0 = server
    /\ failed = {}
    /\ delLog = <<>>

\* -------------------------------------------------------------- actions
\* lines 99-108: no file configured for today: notify and exit(1). The exit
\* is outside the try statement, so no finally runs.
CheckMapping ==
    /\ pc = "start"
    /\ IF file_name = NoFile
       THEN /\ process_success' = FALSE
            /\ \E delivered \in BOOLEAN :
                   send_email("Backup Process Failed", day_of_week, "No file configured", NoFile,
                              delivered)
            /\ failed' = failed \cup {"mapping"}
            /\ pc' = "done"
            /\ exitCode' = 1
       ELSE /\ pc' = "locate"
            /\ UNCHANGED <<process_success, emails, failed, exitCode>>
    /\ UNCHANGED <<config, src, server, days_to_check, di, exiting, delLog>>

\* a wrong handler: it notifies but leaves out exit(1)
ExceptHandler_NoExit(step) ==
    /\ process_success' = FALSE
    /\ \E delivered \in BOOLEAN :
           send_email("Backup Process Failed", day_of_week, "An error occurred", NoFile,
                      delivered)
    /\ failed' = failed \cup {step}
    /\ exiting' = exiting
    /\ pc' = "finally"

\* lines 141-150: the handler of "except Exception": notify, exit(1). The
\* SystemExit it raises runs the finally block before the process ends.
ExceptHandler(step) ==
    /\ process_success' = FALSE
    /\ \E delivered \in BOOLEAN :
           send_email("Backup Process Failed", day_of_week, "An error occurred", NoFile,
                      delivered)
    /\ failed' = failed \cup {step}
    /\ exiting' = TRUE
    /\ pc' = "finally"

\* lines 117-118: today's file is there.
LocateFound ==
    /\ pc = "locate"
    /\ Exists(src, file_name)
    /\ pc' = "compress"
    /\ UNCHANGED <<config, src, server, process_success, days_to_check, di, emails,
                   exiting, exitCode, failed, delLog>>

\* a wrong missing-file branch: it notifies but leaves out exit(1)
LocateMissing_NoExit ==
    /\ pc = "locate"
    /\ ~Exists(src, file_name)
    /\ process_success' = FALSE
    /\ \E delivered \in BOOLEAN :
           send_email("Backup Process Failed", day_of_week, "File not found", file_name,
                      delivered)
    /\ failed' = failed \cup {"missing"}
    /\ pc' = "finally"
    /\ UNCHANGED <<config, src, server, days_to_check, di, exiting, exitCode, delLog>>

\* lines 131-139: today's file is not there: notify, exit(1) inside try.
LocateMissing ==
    /\ pc = "locate"
    /\ ~Exists(src, file_name)
    /\ process_success' = FALSE
    /\ \E delivered \in BOOLEAN :
           send_email("Backup Process Failed", day_of_week, "File not found", file_name,
                      delivered)
    /\ failed' = failed \cup {"missing"}
    /\ exiting' = TRUE
    /\ pc' = "finally"
    /\ UNCHANGED <<config, src, server, days_to_check, di, exitCode, delLog>>

\* lines 121-123: ZipFile(zip_file_path, 'w') truncates the archive path,
\* then write() reads file_path into the member file_name. When the two paths
\* are the same file, what is read is the just-truncated file.
CompressOk ==
    /\ pc = "compress"
    /\ src' = [src EXCEPT ![zip_file_name] =
                  Zip(file_name, IF zip_file_name = file_name THEN NoFile
                                 ELSE src[file_name].data)]
    /\ pc' = "transfer"
    /\ UNCHANGED <<config, server, process_success, days_to_check, di, emails,
                   exiting, exitCode, failed, delLog>>

\* lines 121-122 raise: the archive path is as it was (the open failed) or
\* holds what was written before the error.
CompressFail ==
    /\ pc = "compress"
    /\ \E left \in {src[zip_file_name], Partial} :
           src' = [src EXCEPT ![zip_file_name] = left]
    /\ ExceptHandler("compress")
    /\ UNCHANGED <<config, server, days_to_check, di, exitCode, delLog>>

\* lines 126-129 and 75: the copy, then delete_next_backups is entered.
TransferOk ==
    /\ pc = "transfer"
    /\ server' = src[zip_file_name]
    /\ days_to_check' = get_next_days(day_of_week, DAYS_TO_DELETE)
    /\ di' = 0
    /\ pc' = IF DAYS_TO_DELETE = 0 THEN "finally" ELSE "delete"
    /\ UNCHANGED <<config, src, process_success, emails, exiting, exitCode, failed, delLog>>

\* line 126 raises: the server has the old file or part of the new one.
TransferFail ==
    /\ pc = "transfer"
    /\ server' \in {server, Partial}
    /\ ExceptHandler("transfer")
    /\ UNCHANGED <<config, src, days_to_check, di, exitCode, delLog>>

\* the day and file the loop of line 76 takes next
NextDay == days_to_check[di + 1]

next_file_name == FILES_MAP[NextDay]

LoopPc == IF di + 1 = Len(days_to_check) THEN "finally" ELSE "delete"

Removal(ok) == [pos |-> di + 1, day |-> NextDay, file |-> next_file_name, ok |-> ok]

\* lines 77-81: the day has no file, or its file is not in the directory.
DeleteSkip ==
    /\ pc = "delete"
    /\ IF next_file_name = NoFile THEN TRUE ELSE ~Exists(src, next_file_name)
    /\ di' = di + 1
    /\ pc' = LoopPc
    /\ UNCHANGED <<config, src, server, process_success, days_to_check, emails,
                   exiting, exitCode, failed, delLog>>

\* lines 82-84: os.remove succeeds.
DeleteOk ==
    /\ pc = "delete"
    /\ IF next_file_name = NoFile THEN FALSE ELSE Exists(src, next_file_name)
    /\ src' = [src EXCEPT ![next_file_name] = Absent]
    /\ delLog' = Append(delLog, Removal(TRUE))
    /\ di' = di + 1
    /\ pc' = LoopPc
    /\ UNCHANGED <<config, server, process_success, days_to_check, emails,
                   exiting, exitCode, failed>>

\* a wrong deletion handler: it notifies and goes on with the next day
DeleteFail_Continue ==
    /\ pc = "delete"
    /\ IF next_file_name = NoFile THEN FALSE ELSE Exists(src, next_file_name)
    /\ delLog' = Append(delLog, Removal(FALSE))
    /\ \E delivered \in BOOLEAN :
           send_email("Backup Deletion Failed", NextDay, "Failed to delete", next_file_name,
                      delivered)
    /\ failed' = failed \cup {"delete"}
    /\ di' = di + 1
    /\ exiting' = TRUE
    /\ pc' = LoopPc
    /\ UNCHANGED <<config, src, server, process_success, days_to_check, exitCode>>

\* lines 85-92: os.remove raises: notify, exit(1). process_success = False
\* at line 87 binds a local of delete_next_backups: the module-level flag
\* keeps its value.
DeleteFail ==
    /\ pc = "delete"
    /\ IF next_file_name = NoFile THEN FALSE ELSE Exists(src, next_file_name)
    /\ delLog' = Append(delLog, Removal(FALSE))
    /\ \E delivered \in BOOLEAN :
           send_email("Backup Deletion Failed", NextDay, "Failed to delete", next_file_name,
                      delivered)
    /\ failed' = failed \cup {"delete"}
    /\ di' = di + 1
    /\ exiting' = TRUE
    /\ pc' = "finally"
    /\ UNCHANGED <<config, src, server, process_success, days_to_check, exitCode>>

\* a wrong ending: a success mail that cannot be sent ends the run with 1
FinalNotify_MailFatal ==
    /\ IF process_success
       THEN \E delivered \in BOOLEAN :
                /\ send_email("Backup Process Successful", day_of_week,
                              "successfully compressed", file_name, delivered)
                /\ exitCode' = IF exiting \/ ~delivered THEN 1 ELSE 0
       ELSE /\ UNCHANGED emails
            /\ exitCode' = IF exiting THEN 1 ELSE 0
    /\ pc' = "done"

\* lines 168-173, then the end of the process: the success mail goes out
\* when the module-level flag is still True; a pending SystemExit(1) gives
\* exit code 1, the end of the script gives 0.
FinalNotify ==
    /\ IF process_success
       THEN \E delivered \in BOOLEAN :
                send_email("Backup Process Successful", day_of_week,
                           "successfully compressed", file_name, delivered)
       ELSE UNCHANGED emails
    /\ exitCode' = IF exiting THEN 1 ELSE 0
    /\ pc' = "done"

\* line 154: no archive to remove; lines 168-173.
CleanupSkip ==
    /\ pc = "finally"
    /\ ~Exists(src, zip_file_name)
    /\ FinalNotify
    /\ UNCHANGED <<config, src, server, process_success, days_to_check, di,
                   exiting, failed, delLog>>

\* a wrong cleanup: the archive is left where it is
CleanupOk_NoRemove ==
    /\ pc = "finally"
    /\ Exists(src, zip_file_name)
    /\ FinalNotify
    /\ UNCHANGED <<config, src, server, process_success, days_to_check, di,
                   exiting, failed, delLog>>

\* lines 154-157: the archive is removed; lines 168-173.
CleanupOk ==
    /\ pc = "finally"
    /\ Exists(src, zip_file_name)
    /\ src' = [src EXCEPT ![zip_file_name] = Absent]
    /\ FinalNotify
    /\ UNCHANGED <<config, server, process_success, days_to_check, di,
                   exiting, failed, delLog>>

\* lines 158-166: os.remove raises: notify, exit(1) from inside finally.
CleanupFail ==
    /\ pc = "finally"
    /\ Exists(src, zip_file_name)
    /\ process_success' = FALSE
    /\ \E delivered \in BOOLEAN :
           send_email("Backup Cleanup Error", day_of_week, "Error during cleanup", NoFile,
                      delivered)
    /\ failed' = failed \cup {"cleanup"}
    /\ exiting' = TRUE
    /\ exitCode' = 1
    /\ pc' = "done"
    /\ UNCHANGED <<config, src, server, days_to_check, di, delLog>>

Next ==
    \/ CheckMapping
    \/ LocateFound
    \/ LocateMissing
    \/ CompressOk
    \/ CompressFail
    \/ TransferOk
    \/ TransferFail
    \/ DeleteSkip
    \/ DeleteOk
    \/ DeleteFail
    \/ CleanupSkip
    \/ CleanupOk
    \/ CleanupFail

Spec == Init /\ [][Next]_vars

\* ------------------------------------------------------------ properties
Done == pc = "done"

\* the canonical week, written out: the weekday after each weekday
NextWeekday ==
    [d \in DayNames |->
        CASE d = "Sunday" -> "Monday"
          [] d = "Monday" -> "Tuesday"
          [] d = "Tuesday" -> "Wednesday"
          [] d = "Wednesday" -> "Thursday"
          [] d = "Thursday" -> "Friday"
          [] d = "Friday" -> "Saturday"
          [] d = "Saturday" -> "Sunday"]

RECURSIVE DaysAfter(_, _)
\* the weekday n days after d
DaysAfter(d, n) == IF n = 0 THEN d ELSE NextWeekday[DaysAfter(d, n - 1)]

\* the weekdays of the retention window: the DAYS_TO_DELETE days after today
Window == {DaysAfter(day_of_week, n) : n \in 1..DAYS_TO_DELETE}

Subjects == {emails[i].subject : i \in 1..Len(emails)}

FailureSubjects == {"Backup Process Failed", "Backup Deletion Failed", "Backup Cleanup Error"}

AllDelivered == \A i \in 1..Len(emails) : emails[i].delivered

\* every weekday has a file name and no two weekdays share one
AllDistinct ==
    /\ \A d \in DayNames : FILES_MAP[d] # NoFile
    /\ \A d, e \in DayNames : d # e => FILES_MAP[d] # FILES_MAP[e]

\* C1: a success notification is sent only in a run where no step failed;
\* a run where a step failed sends a failure notification and no success
\* notification. (Stated as the claim has it; a failed retention deletion
\* refutes it.)
C1_SuccessOnlyWithoutFailure ==
    Done =>
        /\ "Backup Process Successful" \in Subjects => failed = {}
        /\ failed # {} => Subjects \cap FailureSubjects # {}

\* C2: in a run that reaches the main workflow, whatever step failed, the
\* temporary archive is gone from the source directory at termination unless
\* its removal failed; a failed removal sends the cleanup notification last
\* and ends the run with exit code 1.
C2_ArchiveRemovedAtExit ==
    (Done /\ file_name # NoFile) =>
        /\ Exists(src, zip_file_name) => "cleanup" \in failed
        /\ "cleanup" \in failed =>
              /\ exitCode = 1
              /\ emails[Len(emails)].subject = "Backup Cleanup Error"
              /\ Exists(src, zip_file_name)

\* C2 witness: a transfer failed, the cleanup ran and the archive is gone.
C2_Witness ==
    /\ Done
    /\ "transfer" \in failed
    /\ "cleanup" \notin failed
    /\ src[zip_file_name] = Absent
    /\ exitCode = 1

\* C3: with all 7 weekdays mapped to distinct names, after a successful run
\* the file of every window weekday is absent and the file of every weekday
\* outside the window is as it was. (Stated as the claim has it; a weekday
\* file that has the name of today's archive refutes it.)
C3_WindowDeletedOthersUntouched ==
    (Done /\ failed = {} /\ AllDistinct) =>
        \A d \in DayNames :
            IF d \in Window
            THEN ~Exists(src, FILES_MAP[d])
            ELSE src[FILES_MAP[d]] = src0[FILES_MAP[d]]

C5_SuccessfulRun ==
    (Done /\ failed = {} /\ AllDelivered) =>
        /\ server = Zip(file_name, src0[file_name].data)
        /\ ~Exists(src, zip_file_name)
        /\ Len(emails) = 1
        /\ emails[1].subject = "Backup Process Successful"
        /\ emails[1].file = file_name

\* C6 as the claim has it: a run that fails a pre-check ends with exit code
\* 1 after exactly one notification, the failure notification for today; no
\* archive is created, the file server is as it was and no retention
\* deletion is done. (A leftover archive that cannot be removed refutes it.)
C6_PreCheckOneNotification ==
    (Done /\ failed \cap {"mapping", "missing"} # {}) =>
        /\ exitCode = 1
        /\ Len(emails) = 1
        /\ emails[1].subject = "Backup Process Failed"
        /\ emails[1].day = day_of_week
        /\ server = server0
        /\ delLog = <<>>
        /\ \A n \in Names : src[n] \in {src0[n], Absent}

\* C6 amended: a run that fails a pre-check ends with exit code 1; its first
\* notification is the failure notification for today (naming the missing
\* file when the file is absent). It is the only one, except that a missing
\* file's run also removes a leftover at today's archive path and, when that
\* removal fails, sends a cleanup notification second. No archive is
\* created, the file server is as it was, no retention deletion is done.
C6_PreCheckFails ==
    (Done /\ failed \cap {"mapping", "missing"} # {}) =>
        /\ exitCode = 1
        /\ emails[1].subject = "Backup Process Failed"
        /\ emails[1].day = day_of_week
        /\ "mapping" \in failed => emails[1].body = "No file configured"
        /\ "missing" \in failed =>
              emails[1].body = "File not found" /\ emails[1].file = file_name
        /\ IF "cleanup" \in failed
           THEN /\ "missing" \in failed
                /\ Exists(src0, zip_file_name)
                /\ Len(emails) = 2
                /\ emails[2].subject = "Backup Cleanup Error"
           ELSE Len(emails) = 1
        /\ server = server0
        /\ delLog = <<>>
        /\ days_to_check = <<>>
        /\ \A n \in Names : src[n] \in {src0[n], Absent}
        /\ \A n \in Names : src[n] # src0[n] => n = zip_file_name

\* C6 witness: today's file is absent, a leftover archive could not be
\* removed, and two notifications went out.
C6_Witness ==
    /\ Done
    /\ "missing" \in failed
    /\ Len(emails) = 2
    /\ exitCode = 1

\* C7: for D from 1 to 7, get_next_days(W, D) has D weekdays, the first is
\* the day after W and each next one the day after the one before it (the
\* week wraps from Saturday to Sunday); W itself is returned only when
\* D = 7, as the last.
C7_NextDays ==
    (days_to_check # <<>> /\ DAYS_TO_DELETE <= 7) =>
        /\ Len(days_to_check) = DAYS_TO_DELETE
        /\ days_to_check[1] = NextWeekday[day_of_week]
        /\ \A i \in 1..(DAYS_TO_DELETE - 1) :
               days_to_check[i + 1] = NextWeekday[days_to_check[i]]
        /\ \A i \in 1..DAYS_TO_DELETE :
               days_to_check[i] = day_of_week => (DAYS_TO_DELETE = 7 /\ i = 7)

\* C7 witness: get_next_days("Saturday", 2) = ["Sunday", "Monday"].
C7_Witness ==
    /\ day_of_week = "Saturday"
    /\ DAYS_TO_DELETE = 2
    /\ days_to_check = <<"Sunday", "Monday">>

\* C8: the exit code is 0 when no step failed and 1 when one did (missing
\* mapping, missing file, deletion failure, cleanup failure; a compression
\* or transfer failure too); whether the mails could be sent plays no part.
C8_ExitCode ==
    /\ Done => exitCode = (IF failed = {} THEN 0 ELSE 1)
    /\ ~Done => exitCode = -1

\* C8 witness: every step succeeded, the success mail could not be sent,
\* and the exit code is 0.
C8_Witness ==
    /\ Done
    /\ failed = {}
    /\ exitCode = 0
    /\ Len(emails) = 1
    /\ ~emails[1].delivered

\* C9 as the claim has it: after a transfer failure the retention deletion
\* still runs, and a compression or transfer failure alone leaves the exit
\* code 0. (Any failed transfer refutes it.)
C9_FailureFallsThrough ==
    /\ (Done /\ "transfer" \in failed) => days_to_check # <<>>
    /\ (Done /\ failed # {} /\ failed \subseteq {"compress", "transfer"}) => exitCode = 0

\* C9 amended: a compression or transfer failure stops the workflow: the
\* handler sends a failure notification and exits with code 1, the
\* retention deletion is never entered and no success notification is
\* sent; only the cleanup of the temporary archive still runs.
C9_FailureStopsWorkflow ==
    (failed \cap {"compress", "transfer"} # {}) =>
        /\ pc \in {"finally", "done"}
        /\ exiting
        /\ ~process_success
        /\ emails[1].subject = "Backup Process Failed"
        /\ emails[1].body = "An error occurred"
        /\ days_to_check = <<>>
        /\ di = 0
        /\ delLog = <<>>
        /\ \A n \in Names : n # zip_file_name => src[n] = src0[n]
        /\ Done =>
              /\ exitCode = 1
              /\ "Backup Process Successful" \notin Subjects
              /\ Exists(src, zip_file_name) => "cleanup" \in failed

\* C9 witness: the transfer failed while files of the retention window
\* were in the source directory; they are still there at exit code 1.
C9_Witness ==
    /\ Done
    /\ failed = {"transfer"}
    /\ exitCode = 1
    /\ FILES_MAP[NextWeekday[day_of_week]] # NoFile
    /\ Exists(src, FILES_MAP[NextWeekday[day_of_week]])

\* C10 as the claim has it: for every configuration, today's file is still
\* in the source directory at termination when it was there at the start.
\* (A window of 7 days, or a window day with today's file name, refutes it.)
C10_TodaysFileKept ==
    (Done /\ file_name # NoFile /\ Exists(src0, file_name)) => Exists(src, file_name)

\* Lemma on the cases of C10: a run changes today's file only when a
\* weekday of the retention window is mapped to today's file name (today
\* itself is in the window when it has 7 days) or when today's file name has
\* the extension .zip, so that the archive path is the file.
TodaysFileChangedOnlyIf ==
    (file_name # NoFile /\ src[file_name] # src0[file_name]) =>
        \/ \E d \in Window : FILES_MAP[d] = file_name
        \/ file_name[2] = "zip"

\* Lemma on the cases of C3: when no weekday's file has the name of today's
\* archive, a successful run leaves the window's files absent and every
\* other weekday's file as it was.
WindowDeletedWhenNoNameClash ==
    (Done /\ failed = {} /\ AllDistinct /\ \A d \in DayNames : FILES_MAP[d] # zip_file_name) =>
        \A d \in DayNames :
            IF d \in Window
            THEN ~Exists(src, FILES_MAP[d])
            ELSE src[FILES_MAP[d]] = src0[FILES_MAP[d]]

\* Lemma on the cases of C5: when today's file name does not end in .zip, a
\* run in which every step succeeds ends as C5 says.
SuccessfulRunWhenNotZip ==
    (Done /\ failed = {} /\ AllDelivered /\ file_name[2] # "zip") =>
        /\ server = Zip(file_name, src0[file_name].data)
        /\ ~Exists(src, zip_file_name)
        /\ Len(emails) = 1
        /\ emails[1].subject = "Backup Process Successful"
        /\ emails[1].file = file_name

====
